---- MODULE Spec2Model ----
(***************************************************************************)
(* Model of consumers/consumer_dowdle.py: a Kafka consumer that counts     *)
(* keyword mentions in a SQLite table (dowdle.sqlite) and mirrors the      *)
(* counts in a JSON file (dowdle_live.json).                               *)
(*                                                                         *)
(* The process is a single thread; pc is the line it is about to run.      *)
(* An uncaught exception ends the process (pc = "crashed", error names     *)
(* the exception); a new run is a new call of main() on the files the      *)
(* previous run left behind.                                               *)
(*                                                                         *)
(* A keyword is whatever JSON value the message carries: the code tests    *)
(* only its truth value.  A string keyword is modelled by its text; a      *)
(* keyword that is not a string by a token such as "<int 5>".  The table   *)
(* and the JSON file key their counts by text.  A mapping is a function    *)
(* whose domain is the set of keys present.                                *)
(***************************************************************************)
EXTENDS Integers, Sequences, FiniteSets, TLC

\* Bound of the model: messages the feed delivers within one run.
MaxEvents == 3

\* Bound of the model: cap of the consecutive-reset history counter.
MaxResets == 2

\* Keyword strings carried by the modelled messages: two ordinary words, and
\* the strings "5", "1" and "true", whose text is also the text a store
\* gives to a keyword that is not a string.
Keywords == {"a", "b", "5", "1", "true"}

\* Keywords that are truthy JSON values and not strings: the int 5, the
\* bool true, the float NaN (json.loads accepts the literal NaN), an int
\* that does not fit SQLite's 64-bit INTEGER, and a list.
NonStringKeywords ==
    {"<int 5>", "<bool True>", "<float NaN>", "<int 2**63>", "<list>"}

\* A string keyword SQLite cannot encode as UTF-8: a lone surrogate, which
\* json.loads accepts as the escape \ud800.
UnencodableKeywords == {"<str lone surrogate>"}

\* The mapping with no key.
EmptyMap == [k \in {} |-> 0]

----------------------------------------------------------------------------
(* Raw messages on the topic and their deserialization *)

\* Raw byte payloads the topic can hold.
RawMessages ==
    {[bytes |-> b, has_kw |-> FALSE, kw |-> ""] :
        b \in {"invalid_utf8", "not_json", "json_too_deep", "json_huge_int",
               "json_array", "json_object"}}
    \cup {[bytes |-> "json_object", has_kw |-> TRUE, kw |-> k] :
        k \in Keywords \cup {""} \cup NonStringKeywords
               \cup UnencodableKeywords}

\* Placeholder of the local `record.value` when no record is being processed.
NoRecord == [type |-> "none", has_kw |-> FALSE, kw |-> ""]

\* value_deserializer: json.loads(x.decode("utf-8")).
Deserialize(raw) ==
    CASE raw.bytes = "invalid_utf8" ->
            [ok |-> FALSE, exc |-> "UnicodeDecodeError", value |-> NoRecord]
      [] raw.bytes = "not_json" ->
            [ok |-> FALSE, exc |-> "JSONDecodeError", value |-> NoRecord]
      [] raw.bytes = "json_too_deep" ->
            [ok |-> FALSE, exc |-> "RecursionError", value |-> NoRecord]
      [] raw.bytes = "json_huge_int" ->
            [ok |-> FALSE, exc |-> "ValueError", value |-> NoRecord]
      [] raw.bytes = "json_array" ->
            [ok |-> TRUE, exc |-> "none",
             value |-> [type |-> "list", has_kw |-> FALSE, kw |-> ""]]
      [] OTHER ->
            [ok |-> TRUE, exc |-> "none",
             value |-> [type |-> "dict", has_kw |-> raw.has_kw, kw |-> raw.kw]]

\* Variant: `if keyword is None` in place of `if not keyword`.
MissingKeyword_NoneOnly(message) == ~message.has_kw

\* message.get("keyword_mentioned") followed by `not keyword`: TRUE when the
\* message is skipped (key absent gives None, "" is falsy).
MissingKeyword(message) == (~message.has_kw) \/ message.kw = ""

----------------------------------------------------------------------------
(* The two stores *)

\* The value SQLite stores as NULL: a float NaN.
SqlNull == "<NULL>"

\* The value SQLite stores for a bound keyword in the TEXT column `keyword`:
\* an int by its digits, a bool as the integer 1 or 0, NaN as NULL.
SqlText(k) ==
    CASE k = "<int 5>" -> "5"
      [] k = "<bool True>" -> "1"
      [] k = "<float NaN>" -> SqlNull
      [] OTHER -> k

\* The exception of binding the keyword at line 67, or "none".
SqlBindError(k) ==
    CASE k = "<int 2**63>" -> "OverflowError"
      [] k \in UnencodableKeywords -> "UnicodeEncodeError"
      [] k = "<list>" -> "sqlite3.Error_update"
      [] OTHER -> "none"

\* The key json.dump writes for a dict key: str(int), "true" for True,
\* "NaN" for the float NaN.
JsonKey(k) ==
    CASE k = "<int 5>" -> "5"
      [] k = "<bool True>" -> "true"
      [] k = "<float NaN>" -> "NaN"
      [] k = "<int 2**63>" -> "9223372036854775808"
      [] OTHER -> k

\* INSERT ... VALUES (?, 1) ON CONFLICT(keyword) DO UPDATE SET count = count + 1
Upsert(rows, k) ==
    [x \in (DOMAIN rows) \cup {k} |->
        IF x = k THEN (IF k \in DOMAIN rows THEN rows[k] + 1 ELSE 1)
        ELSE rows[x]]

\* counts[keyword] = counts.get(keyword, 0) + 1 on the Python dict: the keys
\* loaded from the file are strings, so a keyword that is not a string is
\* never found and becomes a new, last key with count 1.
JsonIncrement(c, k) ==
    [x \in (DOMAIN c) \cup {k} |->
        IF x = k THEN (IF k \in DOMAIN c THEN c[k] ELSE 0) + 1
        ELSE c[x]]

\* The SQLite file: absent, present without the table keyword_counts (the
\* 0-byte file sqlite3.connect creates), or present with the table's rows:
\* the count of each keyword text, and the number of rows (NULL, 1).
DbAbsent ==
    [exists |-> FALSE, table |-> FALSE, rows |-> EmptyMap, nulls |-> 0]

\* The file after sqlite3.connect and before CREATE TABLE has committed.
DbConnected(d) ==
    [exists |-> TRUE, table |-> d.table, rows |-> d.rows, nulls |-> d.nulls]

\* The file after CREATE TABLE IF NOT EXISTS has committed.
DbCreated(d) ==
    [exists |-> TRUE, table |-> TRUE, rows |-> d.rows, nulls |-> d.nulls]

\* The file after the upsert of keyword k has committed: a NULL keyword
\* conflicts with no row of the primary key, so it is a new row each time.
DbUpsert(d, k) ==
    IF SqlText(k) = SqlNull
    THEN [d EXCEPT !.nulls = @ + 1]
    ELSE [d EXCEPT !.rows = Upsert(d.rows, SqlText(k))]

\* The JSON file: absent, empty (just truncated), truncated (a prefix of a
\* document) or a complete document holding mapping m.
JsonAbsent == [kind |-> "absent", m |-> EmptyMap]

\* The file right after open(json_path, "w").
JsonEmpty == [kind |-> "empty", m |-> EmptyMap]

\* The file after a write that stopped part-way.
JsonTruncated == [kind |-> "truncated", m |-> EmptyMap]

\* json.dump(counts, f, indent=4) completed and the file closed, as the
\* mapping json.load gives back: each dict key is written as its JsonKey,
\* and when the non-string key (the last of the dict) has the text of a
\* string key the document holds that key twice and the last one counts.
JsonDoc(c) ==
    [kind |-> "doc",
     m |-> [t \in {JsonKey(x) : x \in DOMAIN c} |->
              IF \E x \in (DOMAIN c) \cap NonStringKeywords : JsonKey(x) = t
              THEN c[CHOOSE x \in (DOMAIN c) \cap NonStringKeywords :
                        JsonKey(x) = t]
              ELSE c[t]]]

VARIABLES
    pc,         \* position of the process
    error,      \* the uncaught exception that ended the run, or "none"
    db,         \* the SQLite file
    jsonFile,   \* the JSON file
    delivered,  \* raw messages the consumer iterator has taken in this run
    record,     \* record.value of the message being processed
    keyword,    \* local `keyword` of process_message
    counts,     \* local `counts` of update_json_file
    carried,    \* history: the stores that held counts when this run started
    resets,     \* history: completed startup resets with no message between
    consumer,   \* local `consumer` of consume_messages: "none" or "subscribed"
    topic,      \* what is_topic_available returned in this run, or "unchecked"
    resetDone   \* history: init_db has returned in this run

vars == <<pc, error, db, jsonFile, delivered, record, keyword, counts,
          carried, resets, consumer, topic, resetDone>>

\* What the run has done so far at startup.
session == <<consumer, topic, resetDone>>

locals == <<record, keyword, counts>>

\* The process dies of an uncaught exception e; files stay as they are.
Crash(e) ==
    /\ pc' = "crashed"
    /\ error' = e
    /\ record' = NoRecord
    /\ keyword' = ""
    /\ counts' = EmptyMap

Init ==
    /\ pc = "main"
    /\ error = "none"
    /\ db = DbAbsent
    /\ jsonFile = JsonAbsent
    /\ delivered = << >>
    /\ record = NoRecord
    /\ keyword = ""
    /\ counts = EmptyMap
    /\ carried = {}
    /\ resets = 0
    /\ consumer = "none"
    /\ topic = "unchecked"
    /\ resetDone = FALSE

----------------------------------------------------------------------------
(* main: startup reset *)

\* Variant: the old database is not deleted.
MainUnlinkDb_Skip ==
    /\ pc = "main"
    /\ pc' = "unlink_json"
    /\ UNCHANGED <<error, locals, db, jsonFile, delivered, carried, resets, session>>

\* if SQLITE_PATH.exists(): SQLITE_PATH.unlink(); exists() and unlink() can
\* both raise OSError, exists() also when the file is absent.
MainUnlinkDb ==
    /\ pc = "main"
    /\ \E ok \in BOOLEAN :
        IF ~ok
        THEN Crash("OSError_unlink_db") /\ UNCHANGED <<db>>
        ELSE /\ db' = DbAbsent
             /\ pc' = "unlink_json"
             /\ UNCHANGED <<error, locals>>
    /\ UNCHANGED <<jsonFile, delivered, carried, resets, session>>

\* Variant: the old JSON file is not deleted.
MainUnlinkJson_Skip ==
    /\ pc = "unlink_json"
    /\ pc' = "init_db"
    /\ UNCHANGED <<error, locals, db, jsonFile, delivered, carried, resets,
                   session>>

\* Variant: JSON_PATH.unlink() without the exists() test.
MainUnlinkJson_NoGuard ==
    /\ pc = "unlink_json"
    /\ \E ok \in BOOLEAN :
        IF ~ok
        THEN Crash("OSError_unlink_json") /\ UNCHANGED <<jsonFile>>
        ELSE IF jsonFile.kind = "absent"
             THEN Crash("FileNotFoundError") /\ UNCHANGED <<jsonFile>>
             ELSE /\ jsonFile' = JsonAbsent
                  /\ pc' = "init_db"
                  /\ UNCHANGED <<error, locals>>
    /\ UNCHANGED <<db, delivered, carried, resets, session>>

\* if JSON_PATH.exists(): JSON_PATH.unlink(); exists() and unlink() can
\* both raise OSError, exists() also when the file is absent.
MainUnlinkJson ==
    /\ pc = "unlink_json"
    /\ \E ok \in BOOLEAN :
        IF ~ok
        THEN Crash("OSError_unlink_json") /\ UNCHANGED <<jsonFile>>
        ELSE /\ jsonFile' = JsonAbsent
             /\ pc' = "init_db"
             /\ UNCHANGED <<error, locals>>
    /\ UNCHANGED <<db, delivered, carried, resets, session>>

\* Variant: an error of init_db is recorded and startup goes on.
InitDb_Continue ==
    /\ pc = "init_db"
    /\ \E ok \in BOOLEAN :
        IF ~ok
        THEN /\ error' = "sqlite3.Error_init_db"
             /\ pc' = "verify_services"
             /\ UNCHANGED <<locals, db, resets, resetDone>>
        ELSE /\ db' = DbCreated(db)
             /\ resets' = IF resets < MaxResets THEN resets + 1 ELSE resets
             /\ resetDone' = TRUE
             /\ pc' = "verify_services"
             /\ UNCHANGED <<error, locals>>
    /\ UNCHANGED <<jsonFile, delivered, carried, consumer, topic>>

\* init_db: sqlite3.connect creates the file; CREATE TABLE IF NOT EXISTS
\* keeps the rows of a table that is already there.  A failure of connect
\* leaves the file as it was, a failure after connect leaves the file
\* connect created.
InitDb ==
    /\ pc = "init_db"
    /\ \E r \in {"ok", "fail_connect", "fail_create"} :
        IF r # "ok"
        THEN /\ Crash("sqlite3.Error_init_db")
             /\ db' = IF r = "fail_connect" THEN db ELSE DbConnected(db)
             /\ UNCHANGED <<resets, resetDone>>
        ELSE /\ db' = DbCreated(db)
             /\ resets' = IF resets < MaxResets THEN resets + 1 ELSE resets
             /\ resetDone' = TRUE
             /\ pc' = "verify_services"
             /\ UNCHANGED <<error, locals>>
    /\ UNCHANGED <<jsonFile, delivered, carried, consumer, topic>>

----------------------------------------------------------------------------
(* consume_messages: subscription *)

\* verify_services() either returns or ends the process.
VerifyServicesOutcomes == {"ok", "unreachable"}

\* create_kafka_consumer() either returns a consumer or raises.
CreateConsumerOutcomes == {"ok", "error"}

\* is_topic_available(TOPIC) returns a bool, which the caller drops.
TopicAvailableOutcomes == BOOLEAN

\* Step 1: verify_services()
VerifyServices ==
    /\ pc = "verify_services"
    /\ \E r \in VerifyServicesOutcomes :
        IF r = "ok"
        THEN pc' = "create_consumer" /\ UNCHANGED <<error, locals>>
        ELSE Crash("verify_services")
    /\ UNCHANGED <<db, jsonFile, delivered, carried, resets, session>>

\* Step 2: consumer = create_kafka_consumer(TOPIC, GROUP_ID, deserializer)
CreateConsumer ==
    /\ pc = "create_consumer"
    /\ \E r \in CreateConsumerOutcomes :
        IF r = "ok"
        THEN /\ pc' = "is_topic_available"
             /\ consumer' = "subscribed"
             /\ UNCHANGED <<error, locals>>
        ELSE Crash("create_kafka_consumer") /\ UNCHANGED <<consumer>>
    /\ UNCHANGED <<db, jsonFile, delivered, carried, resets, topic, resetDone>>

\* Variant: a missing topic ends the process.
IsTopicAvailable_Abort ==
    /\ pc = "is_topic_available"
    /\ \E r \in TopicAvailableOutcomes :
        /\ topic' = IF r THEN "available" ELSE "missing"
        /\ IF r
           THEN pc' = "loop" /\ UNCHANGED <<error, locals>>
           ELSE Crash("topic_missing")
    /\ UNCHANGED <<db, jsonFile, delivered, carried, resets,
                   consumer, resetDone>>

\* Step 3: is_topic_available(TOPIC); the result is not used.
IsTopicAvailable ==
    /\ pc = "is_topic_available"
    /\ \E r \in TopicAvailableOutcomes :
        /\ topic' = IF r THEN "available" ELSE "missing"
        /\ pc' = "loop"
    /\ UNCHANGED <<error, locals, db, jsonFile, delivered, carried, resets,
                   consumer, resetDone>>

----------------------------------------------------------------------------
(* consume_messages: the loop, and process_message *)

\* `for record in consumer`: the iterator takes the next raw message and
\* applies the deserializer; an exception of the deserializer leaves the
\* iterator and is caught nowhere.
NextRecord ==
    /\ pc = "loop"
    /\ Len(delivered) < MaxEvents
    /\ \E raw \in RawMessages :
        /\ delivered' = Append(delivered, raw)
        /\ IF Deserialize(raw).ok
           THEN /\ record' = Deserialize(raw).value
                /\ pc' = "process_message"
                /\ UNCHANGED <<error, keyword, counts>>
           ELSE Crash(Deserialize(raw).exc)
    /\ resets' = 0
    /\ UNCHANGED <<db, jsonFile, carried, session>>

\* The iterator is exhausted: the for loop, consume_messages and main return.
EndOfStream ==
    /\ pc = "loop"
    /\ pc' = "done"
    /\ UNCHANGED <<error, locals, db, jsonFile, delivered, carried, resets, session>>

\* process_message up to the two updates: message.get on a value that is
\* not a dict raises AttributeError; a missing or empty keyword returns.
ProcessMessage ==
    /\ pc = "process_message"
    /\ IF record.type # "dict"
       THEN Crash("AttributeError")
       ELSE IF MissingKeyword(record)
            THEN /\ pc' = "loop"
                 /\ record' = NoRecord
                 /\ UNCHANGED <<error, keyword, counts>>
            ELSE /\ pc' = "update_keyword_count"
                 /\ keyword' = record.kw
                 /\ record' = NoRecord
                 /\ UNCHANGED <<error, counts>>
    /\ UNCHANGED <<db, jsonFile, delivered, carried, resets, session>>

\* Variant: conn.commit() is missing, so the upsert is rolled back at close.
UpdateKeywordCount_NoCommit ==
    /\ pc = "update_keyword_count"
    /\ \E ok \in BOOLEAN :
        IF ~ok \/ ~db.table
        THEN /\ Crash("sqlite3.Error_update")
             /\ db' \in {db, DbConnected(db)}
        ELSE IF SqlBindError(keyword) # "none"
             THEN Crash(SqlBindError(keyword)) /\ UNCHANGED <<db>>
             ELSE /\ pc' = "json_read"
                  /\ UNCHANGED <<db, error, locals>>
    /\ UNCHANGED <<jsonFile, delivered, carried, resets, session>>

\* update_keyword_count: sqlite3.connect (line 65, creates a missing file)
\* and the preparation of the statement can raise an sqlite3 error before
\* the keyword is bound; binding the keyword can raise; otherwise one upsert
\* is committed.  Every exception leaves the table as it was.
UpdateKeywordCount ==
    /\ pc = "update_keyword_count"
    /\ \E ok \in BOOLEAN :
        IF ~ok \/ ~db.table
        THEN /\ Crash("sqlite3.Error_update")
             /\ db' \in {db, DbConnected(db)}
        ELSE IF SqlBindError(keyword) # "none"
             THEN Crash(SqlBindError(keyword)) /\ UNCHANGED <<db>>
             ELSE /\ db' = DbUpsert(db, keyword)
                  /\ pc' = "json_read"
                  /\ UNCHANGED <<error, locals>>
    /\ UNCHANGED <<jsonFile, delivered, carried, resets, session>>

\* update_json_file, lines 85-91: read the file's own content (or start
\* from {} when the file is absent) and add one to the keyword; exists(),
\* open() and the read can raise OSError, exists() also when the file is
\* absent, and json.load raises on a file that holds no document.
UpdateJsonRead ==
    /\ pc = "json_read"
    /\ \E ok \in BOOLEAN :
        IF ~ok
        THEN Crash("OSError_json_read")
        ELSE IF jsonFile.kind = "absent"
             THEN /\ counts' = JsonIncrement(EmptyMap, keyword)
                  /\ pc' = "json_open"
                  /\ UNCHANGED <<error, record, keyword>>
             ELSE IF jsonFile.kind = "doc"
                  THEN /\ counts' = JsonIncrement(jsonFile.m, keyword)
                       /\ pc' = "json_open"
                       /\ UNCHANGED <<error, record, keyword>>
                  ELSE Crash("JSONDecodeError_json_read")
    /\ UNCHANGED <<db, jsonFile, delivered, carried, resets, session>>

\* update_json_file, line 93: open(json_path, "w") truncates the file.
UpdateJsonOpen ==
    /\ pc = "json_open"
    /\ \E ok \in BOOLEAN :
        IF ok
        THEN /\ jsonFile' = JsonEmpty
             /\ pc' = "json_dump"
             /\ UNCHANGED <<error, locals>>
        ELSE Crash("OSError_json_open") /\ UNCHANGED <<jsonFile>>
    /\ UNCHANGED <<db, delivered, carried, resets, session>>

\* update_json_file, line 94: json.dump and the close of the with block;
\* a failed write leaves the file empty or with a prefix of the document.
UpdateJsonDump ==
    /\ pc = "json_dump"
    /\ \E r \in {"ok", "fail_empty", "fail_truncated"} :
        IF r = "ok"
        THEN /\ jsonFile' = JsonDoc(counts)
             /\ pc' = "loop"
             /\ keyword' = ""
             /\ counts' = EmptyMap
             /\ UNCHANGED <<error, record>>
        ELSE /\ Crash("OSError_json_write")
             /\ jsonFile' = IF r = "fail_empty" THEN JsonEmpty
                            ELSE JsonTruncated
    /\ UNCHANGED <<db, delivered, carried, resets, session>>

----------------------------------------------------------------------------
(* Process boundary *)

\* Positions at which the process is alive.
LivePcs == {"main", "unlink_json", "init_db", "verify_services",
            "create_consumer", "is_topic_available", "loop",
            "process_message", "update_keyword_count", "json_read",
            "json_open", "json_dump"}

\* SIGINT: KeyboardInterrupt is raised at whatever line is running and no
\* handler catches it.  Inside json.dump the with block closes the file on
\* the chunks written so far; inside init_db the file sqlite3.connect
\* created may already be there.
Interrupt ==
    /\ pc \in LivePcs
    /\ pc' = "stopped"
    /\ error' = "KeyboardInterrupt"
    /\ record' = NoRecord
    /\ keyword' = ""
    /\ counts' = EmptyMap
    /\ jsonFile' \in (IF pc = "json_dump" THEN {jsonFile, JsonTruncated}
                      ELSE {jsonFile})
    /\ db' \in (IF pc = "init_db" THEN {db, DbConnected(db)} ELSE {db})
    /\ UNCHANGED <<delivered, carried, resets, session>>

\* The operator starts the program again: a new main() on the files left.
Restart ==
    /\ pc \in {"crashed", "stopped", "done"}
    /\ pc' = "main"
    /\ error' = "none"
    /\ delivered' = << >>
    /\ carried' = (IF DOMAIN db.rows # {} \/ db.nulls > 0 THEN {"db"} ELSE {})
                   \cup (IF DOMAIN jsonFile.m # {} THEN {"json"} ELSE {})
    /\ consumer' = "none"
    /\ topic' = "unchecked"
    /\ resetDone' = FALSE
    /\ UNCHANGED <<db, jsonFile, locals, resets>>

\* One step of the running process.
ProcessStep ==
    \/ MainUnlinkDb
    \/ MainUnlinkJson
    \/ InitDb
    \/ VerifyServices
    \/ CreateConsumer
    \/ IsTopicAvailable
    \/ NextRecord
    \/ ProcessMessage
    \/ UpdateKeywordCount
    \/ UpdateJsonRead
    \/ UpdateJsonOpen
    \/ UpdateJsonDump

Next ==
    \/ MainUnlinkDb
    \/ MainUnlinkJson
    \/ InitDb
    \/ VerifyServices
    \/ CreateConsumer
    \/ IsTopicAvailable
    \/ NextRecord
    \/ EndOfStream
    \/ ProcessMessage
    \/ UpdateKeywordCount
    \/ UpdateJsonRead
    \/ UpdateJsonOpen
    \/ UpdateJsonDump
    \/ Interrupt
    \/ Restart

Spec == Init /\ [][Next]_vars

\* One run of the program with no signal and no restart.
RunNext ==
    \/ ProcessStep
    \/ EndOfStream

\* One run in which the process, while alive, takes its next step.
RunSpec == Init /\ [][RunNext]_vars /\ WF_vars(ProcessStep)

----------------------------------------------------------------------------
(* Observations used by the properties *)

\* A valid event: a JSON object carrying a non-empty keyword_mentioned.
ValidRaw(raw) == raw.bytes = "json_object" /\ raw.has_kw /\ raw.kw # ""

\* An object event whose keyword_mentioned is absent or empty.
KeywordAbsentOrEmpty(m) == (~m.has_kw) \/ m.kw = ""

\* Keywords a valid event can carry.
AllKeywords == Keywords \cup NonStringKeywords \cup UnencodableKeywords

\* Number of valid events for keyword k in a sequence of raw messages.
Occ(k, seq) ==
    Cardinality({i \in 1..Len(seq) : ValidRaw(seq[i]) /\ seq[i].kw = k})

\* Number of valid events of a sequence whose keyword SQLite stores as t.
OccText(t, seq) ==
    Cardinality({i \in 1..Len(seq) :
                    ValidRaw(seq[i]) /\ SqlText(seq[i].kw) = t})

\* Number of valid events in a sequence of raw messages.
NumValid(seq) == Cardinality({i \in 1..Len(seq) : ValidRaw(seq[i])})

\* Keys either store can hold.
AllKeys ==
    Keywords \cup {""} \cup {SqlText(k) : k \in NonStringKeywords}
             \cup {JsonKey(k) : k \in NonStringKeywords}

\* The keys the snapshot holds once every valid event of a sequence has been
\* mirrored.
MirroredKeys(seq) ==
    {JsonKey(seq[i].kw) : i \in {j \in 1..Len(seq) : ValidRaw(seq[j])}}

\* The count of the table's row with keyword text k, 0 when there is none.
StoreCount(k) == IF k \in DOMAIN db.rows THEN db.rows[k] ELSE 0

\* CounterStore.get(k): the count of the row keyword = k; NULL equals nothing.
StoreGet(k) == IF SqlText(k) = SqlNull THEN 0 ELSE StoreCount(SqlText(k))

\* The sum of the counts of all rows of the table.
TableTotal ==
    Cardinality(UNION {{<<k, i>> : i \in 1..db.rows[k]} : k \in DOMAIN db.rows})
    + db.nulls

\* The table exists and has no row.
TableEmpty == db.table /\ DOMAIN db.rows = {} /\ db.nulls = 0

\* A reader can parse the artifact, or finds no artifact.
SnapshotReadable == jsonFile.kind \in {"absent", "doc"}

\* The mapping a reader gets; an absent artifact reads as {} (as line 89 does).
SnapshotMapping == IF jsonFile.kind = "doc" THEN jsonFile.m ELSE EmptyMap

\* The snapshot's count for k, 0 when the key or the document is missing.
SnapshotCount(k) ==
    IF k \in DOMAIN SnapshotMapping THEN SnapshotMapping[k] ELSE 0

\* The snapshot's count for keyword k, under the key JSON gives it.
SnapshotGet(k) == SnapshotCount(JsonKey(k))

\* No event in flight and the run has not failed.
Quiescent == pc \in {"loop", "done"}

\* Positions inside the consumption loop.
LoopPcs == {"loop", "process_message", "update_keyword_count", "json_read",
            "json_open", "json_dump"}

\* Uncaught exceptions of the two sinks.
StoreErrors == {"sqlite3.Error_update", "OverflowError", "UnicodeEncodeError"}
MirrorErrors == {"OSError_json_read", "JSONDecodeError_json_read",
                 "OSError_json_open", "OSError_json_write"}

\* Uncaught exceptions of decoding.
DecodeErrors == {"UnicodeDecodeError", "JSONDecodeError", "RecursionError",
                 "ValueError", "AttributeError"}

\* The startup reset is complete and no message has been taken yet.
AfterResetBeforeFirstEvent ==
    /\ pc \in {"verify_services", "create_consumer", "is_topic_available",
               "loop"}
    /\ delivered = << >>

\* Some delivered message was a JSON object without a usable keyword.
SkippedSome ==
    \E i \in 1..Len(delivered) :
        /\ delivered[i].bytes = "json_object"
        /\ KeywordAbsentOrEmpty(delivered[i])

----------------------------------------------------------------------------
(* Properties *)

\* C1 (as claimed): after any sequence of messages processed without a
\* failure, the table holds, for each keyword, one row whose count is the
\* number of the keyword's valid occurrences, and no row for a keyword that
\* did not occur.  Keywords are told apart by the value SQLite stores.
C1_CountsEqualOccurrences ==
    Quiescent => \A t \in AllKeys : StoreCount(t) = OccText(t, delivered)

\* C2 (as claimed): at every quiescent point the snapshot document is
\* readable and its mapping equals the table's mapping, key set and counts.
C2_SnapshotEqualsStore ==
    Quiescent => (SnapshotReadable /\ SnapshotMapping = db.rows)

\* C3 (as claimed): in every state of the consumption loop, and after a
\* failure of a sink, each keyword's store count exceeds its snapshot count
\* by 0 or 1, and by 1 for at most one keyword.
C3_StoreLeadsByAtMostOne ==
    (pc \in LoopPcs \/ (pc = "crashed" /\ error \in StoreErrors \cup MirrorErrors))
    => /\ \A k \in AllKeys : StoreCount(k) - SnapshotCount(k) \in {0, 1}
       /\ Cardinality({k \in AllKeys : StoreCount(k) - SnapshotCount(k) = 1}) <= 1

\* C4 (as claimed): when a mirror write has failed with the store ahead and
\* the feed still has messages, the run comes back to a point between events
\* where the snapshot equals the store.
C4_StalenessRepaired ==
    (/\ error \in MirrorErrors
     /\ SnapshotMapping # db.rows
     /\ Len(delivered) < MaxEvents)
    ~> (/\ pc = "loop"
        /\ Len(delivered) > 0
        /\ SnapshotReadable
        /\ SnapshotMapping = db.rows)

\* C5 (as claimed): a failure of a sink while processing one event never
\* ends the process.
C5_SinkFailureContained ==
    ~(pc = "crashed" /\ error \in StoreErrors \cup MirrorErrors)

\* C6: processing an object whose keyword is absent or empty changes neither
\* file and returns to the loop, and the valid messages around it are applied
\* to both stores: the table has one increment for each of them and the
\* snapshot holds a key for each of them.
C6_MissingKeywordSkipped ==
    /\ [][(pc = "process_message" /\ record.type = "dict"
           /\ KeywordAbsentOrEmpty(record))
          => (db' = db /\ jsonFile' = jsonFile /\ pc' \in {"loop", "stopped"})]_vars
    /\ [](pc = "loop" /\ SkippedSome
          => /\ TableTotal = NumValid(delivered)
             /\ SnapshotReadable
             /\ DOMAIN SnapshotMapping = MirroredKeys(delivered))

\* C6 witness: an object without keyword, then a valid message that is counted.
C6_Witness ==
    /\ pc = "loop"
    /\ Len(delivered) = 2
    /\ delivered[1] = [bytes |-> "json_object", has_kw |-> FALSE, kw |-> ""]
    /\ ValidRaw(delivered[2])
    /\ StoreGet(delivered[2].kw) = 1
    /\ SnapshotGet(delivered[2].kw) = 1

\* C7 (as claimed): a message that is not UTF-8 JSON, or not a JSON object,
\* never ends the process.
C7_MalformedSkipped ==
    ~(pc = "crashed" /\ error \in DecodeErrors)

\* C8: once the startup reset is complete and before the first message, the
\* table exists and is empty and the snapshot reads as the empty mapping.
C8_ResetEmptiesBoth ==
    AfterResetBeforeFirstEvent
    => /\ TableEmpty
       /\ SnapshotReadable
       /\ SnapshotMapping = EmptyMap

\* C8 witness: the reset is complete in a run that found counts in both files.
C8_Witness ==
    /\ pc = "verify_services"
    /\ carried = {"db", "json"}
    /\ db.table

\* C9: after one reset and after a second reset with no message between, both
\* stores have no key, and no reset fails on an artifact that is absent.
C9_ResetIdempotent ==
    /\ (pc = "verify_services" /\ resets >= 1)
       => (TableEmpty /\ jsonFile = JsonAbsent)
    /\ error # "FileNotFoundError"

\* C9 witness: a second reset in a row has completed.
C9_Witness ==
    /\ pc = "verify_services"
    /\ resets = 2
    /\ error = "none"

\* C10 (as claimed): while the loop runs, the artifact is absent or holds one
\* complete document.
C10_NoPartialSnapshot ==
    pc \in LoopPcs => jsonFile.kind \in {"absent", "doc"}

----------------------------------------------------------------------------
(* Properties of cancellation, ordering and startup *)

\* A sequence without its last element.
Front(seq) == SubSeq(seq, 1, Len(seq) - 1)

\* Uncaught exceptions of the initialization stages.
InitErrors == {"OSError_unlink_db", "OSError_unlink_json",
               "sqlite3.Error_init_db", "verify_services",
               "create_kafka_consumer"}

\* C11 (as claimed): a stop signal never ends the process between the two
\* sink updates of an event: whenever the loop is stopped, the snapshot is a
\* complete document equal to the store.
C11_StopOnlyBetweenEvents ==
    [][(pc \in LoopPcs /\ pc' = "stopped")
       => (SnapshotReadable' /\ SnapshotMapping' = (db').rows)]_vars

\* C12 (as claimed): no step of the run loop lowers the store's or the
\* snapshot's count of any keyword.
C12_CountsMonotone ==
    [][(pc \in LoopPcs)
       => (\A k \in AllKeys : StoreCount(k)' >= StoreCount(k)
                               /\ SnapshotCount(k)' >= SnapshotCount(k))]_vars

\* C13: once an initialization stage has failed, the process is dead, it has
\* pulled no message, and neither file changes for the rest of that run.
C13_InitFailureNeverRuns ==
    /\ [](error \in InitErrors => (pc = "crashed" /\ delivered = << >>))
    /\ [][(error \in InitErrors) => (db' = db /\ jsonFile' = jsonFile)]_vars

\* C13 witness: the run died creating the feed handle.
C13_Witness ==
    /\ pc = "crashed"
    /\ error = "create_kafka_consumer"
    /\ delivered = << >>

\* C14: a message is pulled only between events, in feed order, with every
\* earlier event applied to both stores; the increment of the current event
\* is in the table before its mirror update starts, and the file is written
\* only by the mirror update, after that increment.
C14_OneAtATimeInOrder ==
    /\ [](pc = "update_keyword_count"
          => TableTotal = NumValid(Front(delivered)))
    /\ [](pc \in {"json_read", "json_open", "json_dump"}
          => TableTotal = NumValid(delivered))
    /\ [][(pc \in LoopPcs /\ jsonFile' # jsonFile)
          => (pc \in {"json_open", "json_dump"}
              /\ TableTotal = NumValid(delivered))]_vars
    /\ [][(Len(delivered') > Len(delivered))
          => (pc = "loop"
              /\ Front(delivered') = delivered
              /\ TableTotal = NumValid(delivered)
              /\ SnapshotReadable
              /\ DOMAIN SnapshotMapping = MirroredKeys(delivered))]_vars

\* C14 witness: the second event is in the store and not yet in the mirror.
C14_Witness ==
    /\ pc = "json_read"
    /\ Len(delivered) = 2
    /\ ValidRaw(delivered[1])
    /\ ValidRaw(delivered[2])
    /\ TableTotal = 2
    /\ DOMAIN SnapshotMapping = MirroredKeys(Front(delivered))

\* C15 (as claimed): the topic check has been made whenever the feed handle
\* exists.
C15_TopicCheckedBeforeSubscribe ==
    consumer = "subscribed" => topic # "unchecked"

\* C15 (amended): the topic check is made after the feed handle is created
\* and before the loop is entered, and a negative result leads to the loop.
C15_TopicCheckedAfterSubscribe ==
    /\ [](topic # "unchecked" => consumer = "subscribed")
    /\ [](pc \in LoopPcs => topic # "unchecked")
    /\ [][(pc = "is_topic_available" /\ topic' = "missing")
          => pc' = "loop"]_vars

\* C15 witness: the loop runs although the topic was reported missing.
C15_Witness ==
    /\ pc = "loop"
    /\ consumer = "subscribed"
    /\ topic = "missing"

\* The snapshot holds no key the store lacks and no count above the store's.
SnapshotWithinStore ==
    /\ \A k \in AllKeys : SnapshotCount(k) <= StoreCount(k)
    /\ DOMAIN SnapshotMapping \subseteq DOMAIN db.rows

\* C16 (as claimed, for the states from the end of the startup reset on):
\* the snapshot is within the store.
C16_SnapshotNeverLeadsAfterReset ==
    resetDone => SnapshotWithinStore

\* The key of the snapshot that stands for the keyword of the message.
MirrorKey == JsonKey(keyword)

\* C17 (as claimed): the mirror update of an event sets the snapshot's count
\* of the event's keyword to its previous count plus one (1 when the file or
\* the key is absent) and leaves every other key as it was.
C17_MirrorReadModifyWrite ==
    /\ [][(pc = "json_read" /\ pc' = "json_open")
          => (/\ DOMAIN JsonDoc(counts').m
                    = (DOMAIN SnapshotMapping) \cup {MirrorKey}
              /\ JsonDoc(counts').m[MirrorKey] = SnapshotCount(MirrorKey) + 1
              /\ \A x \in (DOMAIN SnapshotMapping) \ {MirrorKey} :
                    JsonDoc(counts').m[x] = SnapshotMapping[x])]_vars
    /\ [][(pc = "json_dump" /\ pc' = "loop")
          => (jsonFile' = JsonDoc(counts))]_vars

\* C18 (as claimed): when the same message is delivered more than once, both
\* stores count every delivery of it.
C18_RedeliveryCounted ==
    pc = "loop"
    => \A i, j \in 1..Len(delivered) :
          (i < j /\ delivered[i] = delivered[j] /\ ValidRaw(delivered[i]))
          => /\ StoreGet(delivered[i].kw) = Occ(delivered[i].kw, delivered)
             /\ SnapshotGet(delivered[i].kw) = Occ(delivered[i].kw, delivered)

\* C19: the bus is verified and the feed handle created only after the
\* startup reset, and a run that dies there has left both stores empty.
C19_ResetBeforeSubscription ==
    /\ (pc \in {"verify_services", "create_consumer"} \/ consumer = "subscribed")
       => resetDone
    /\ (pc = "crashed" /\ error \in {"verify_services", "create_kafka_consumer"})
       => (TableEmpty /\ jsonFile.kind = "absent")

\* C19 witness: the bus check failed in a run that found counts in both files.
C19_Witness ==
    /\ pc = "crashed"
    /\ error = "verify_services"
    /\ carried = {"db", "json"}

====
